---- MODULE Spec2Model ----
(***************************************************************************)
(* Model of simulate.py: the multi-stage trace pipeline (trace), the       *)
(* bandwidth fixed-point loop (optimize), the per-point wrapper            *)
(* (simulate) and the pool driver (main).                                  *)
(*                                                                         *)
(* The ray-tracing engine (Shadow) is external: what it answers to         *)
(* traceOE, getshonecol and histo1 is a nondeterministic choice from small *)
(* sets.  Widths are integers, one unit = 0.01 eV, so the initial guess    *)
(* 0.1 of simulate is 10; the test x/d > 0.30 is 10*x > 3*d.               *)
(***************************************************************************)
EXTENDS Integers, Sequences, FiniteSets, TLC

VARIABLES
  tr,              \* frame of one trace() call: its locals and its return value
                   \* (of simulate's own trace call, in a simulate call)
  beam,            \* the beam of the latest set_up call, <<>> before the first:
                   \* the half-width it was generated with, the times it was traced
  pc,              \* position of the simulate/optimize call
  args,            \* the call: who (simulate or a direct optimize), E, grating_eff, flux
  delta_E,         \* optimize's delta_E (the half-width of the current trial)
  delta_E_prime,   \* optimize's delta_E_prime
  fwhm,            \* optimize's fwhm (bandwidth of its last trace)
  ret,             \* value returned by optimize, <<>> until it returns
  row,             \* value returned by simulate, <<>> until it returns
  guess,           \* history: the delta_E optimize was called with
  ntraces,         \* history: traces run by optimize so far (saturates at MaxCount)
  aborted,         \* history: some trace of this optimize call returned bandwidth 0
  starved,         \* history: some trace of this optimize call had < 500 rays at stage 11
  retraced,        \* history: optimize ran a set_up/trace after a trace that returned 0
  flat,            \* history: every trace of this optimize call returned the same bandwidth
  nextTask,        \* main: index of the next element of args the pool hands to a worker
  busy,            \* main: the index each pool worker is running simulate on, 0 if idle
  got,             \* main: per index, the tuple its simulate returned, <<>> until it does
  results,         \* main: what imap has yielded to list() so far
  outfile,         \* main: the file written, <<>> until it is
  finishOrder      \* history: the indices in the order their simulate calls returned

callVars == <<pc, args, delta_E, delta_E_prime, fwhm, ret, row,
              guess, ntraces, aborted, starved, retraced, flat>>
poolVars == <<nextTask, busy, got, results, outfile, finishOrder>>
vars == <<tr, beam, callVars, poolVars>>

----------------------------------------------------------------------------
(* Program constants *)

NumOE == 11          \* len(list_oe): the chain set_up returns
\* mutant of BwIndex: the return is taken one element early
BwIndexEarly == NumOE - 2
BwIndex == 10        \* the loop index at which trace returns (i == 10)
MinRays == 500       \* the low-statistics threshold
NPOINT == 50000      \* rays generated at the source
InitialGuess == 10   \* optimize(E, 0.1, ...) in simulate, in units of 0.01 eV
None == -1           \* Python's None as a histo1 'fwhm' value

(* Bounds of the model *)

MaxCount == 4        \* the trace counter of one optimize call saturates here
NumEnergies == 3     \* length of the energy scan of one (cff, order) pair
PoolSize == 2        \* workers of the pool (30 in main)
MaxResponses == 4    \* traces one simulate call of the sweep runs at most

----------------------------------------------------------------------------
(* The engine's answers *)

\* number of non-lost rays a beam can have: rays only go from alive to lost
RayLevels == {0, MinRays - 1, MinRays, NPOINT}

\* sum of the intensity weights (each at most 1) of n non-lost rays
Intensities(n) == IF n = 0 THEN {0} ELSE {n \div 2}

\* 'fwhm' of histo1 over column 3 (transverse size)
HeightFits == {0, 3}

\* 'fwhm' of histo1 over column 11 (photon energy): None, 0 or a width
Widths == {2, 5, 7, 13}
BwFits == {None, 0} \cup Widths

\* what the engine reports after propagating a beam of n non-lost rays through
\* one more element (traceOE): m non-lost rays left (getshonecol(23, nolost=1)),
\* their intensity sum I, and the fits h (column 3) and bw (column 11) that
\* histo1 gives if trace asks for them
Engine(n) ==
  UNION { { [n |-> m, I |-> x, h |-> hh, bw |-> b] :
              x \in Intensities(m), hh \in HeightFits, b \in BwFits } :
          m \in {l \in RayLevels : l <= n} }

----------------------------------------------------------------------------
(* trace *)

\* a Python value that is a dict (keys OE1..OEk in insertion order, as the
\* sequence of their values) or the integer 0
PyDict(s) == [isdict |-> TRUE, items |-> s]
PyZero == [isdict |-> FALSE, items |-> <<>>]

\* the frame of trace() when it is called on the beam set_up generated:
\* i elements propagated, n non-lost rays in the beam, the locals
\* intensity_val, int_dict, height_dict, ray_dict and result (its 'fwhm'),
\* the histo1 calls made (hfit: stages whose column-3 fit was taken, bwfit:
\* column-11 fit taken), and the returned tuple (<<>> while running)
NewTrace ==
  [i |-> 0, n |-> NPOINT, intensity_val |-> 0,
   int_dict |-> <<>>, height_dict |-> <<>>, ray_dict |-> <<>>, result |-> None,
   hfit |-> {}, bwfit |-> FALSE, ret |-> <<>>]

\* the tuple trace returns
Result(f, inten, idict, hdict, rdict) ==
  [fwhm |-> f, intensity |-> inten,
   int_dict |-> idict, height_dict |-> hdict, ray_dict |-> rdict]

\* mutant of StageLow: the threshold test off by one
StageLowOffByOne(num_of_rays) == num_of_rays <= MinRays

\* mutant of BwLow: the ray count is not tested at the bandwidth stage
BwLowNever(num_of_rays) == FALSE

\* mutant of Degenerate: a fit of None is not caught
DegenerateZeroOnly(f) == f = 0

\* mutant of StageLow: the comparison inverted
StageLowInverted(num_of_rays) == num_of_rays >= MinRays

\* if num_of_rays < 500, in the loop body: the stage's entries are sentinels
StageLow(num_of_rays) == num_of_rays < MinRays

\* if num_of_rays < 500, at i == 10: trace returns the sentinel
BwLow(num_of_rays) == num_of_rays < MinRays

\* the fit is degenerate: result['fwhm'] == 0 or result['fwhm'] == None
Degenerate(f) == f = 0 \/ f = None

\* mutant of ReturnAt: the ray count is tested at every stage, not only at
\* i == 10
ReturnAtAnyLowStage(i, num_of_rays, intensity_val, bw, idict, hdict, rdict) ==
  IF BwLow(num_of_rays)
  THEN << Result(0, 0, PyDict(idict), PyDict(hdict), PyZero) >>
  ELSE IF i # BwIndex THEN <<>>
  ELSE IF Degenerate(bw)
       THEN << Result(0, 0, PyDict(idict), PyDict(hdict), PyZero) >>
  ELSE << Result(bw, intensity_val, PyDict(idict), PyDict(hdict), PyDict(rdict)) >>

\* mutant of ReturnAt: the bandwidth returned is the stage's entry of
\* height_dict
ReturnAtHeightEntry(i, num_of_rays, intensity_val, bw, idict, hdict, rdict) ==
  IF i # BwIndex THEN <<>>
  ELSE IF BwLow(num_of_rays)
       THEN << Result(0, 0, PyDict(idict), PyDict(hdict), PyZero) >>
  ELSE IF Degenerate(bw)
       THEN << Result(0, 0, PyDict(idict), PyDict(hdict), PyZero) >>
  ELSE << Result(hdict[i + 1], intensity_val,
                 PyDict(idict), PyDict(hdict), PyDict(rdict)) >>

\* the return taken at i == 10, <<>> when trace goes on
ReturnAt(i, num_of_rays, intensity_val, bw, idict, hdict, rdict) ==
  IF i # BwIndex THEN <<>>
  ELSE IF BwLow(num_of_rays)
       THEN << Result(0, 0, PyDict(idict), PyDict(hdict), PyZero) >>
  ELSE IF Degenerate(bw)
       THEN << Result(0, 0, PyDict(idict), PyDict(hdict), PyZero) >>
  ELSE << Result(bw, intensity_val, PyDict(idict), PyDict(hdict), PyDict(rdict)) >>

\* one iteration of the for loop of trace, with the engine answering eng
LoopBody(t, eng) ==
  LET i == t.i
      num_of_rays == eng.n
      intensity_val == eng.I
      low == StageLow(num_of_rays)
      fitted == i = BwIndex /\ ~BwLow(num_of_rays)
      idict == Append(t.int_dict, intensity_val)
      hdict == Append(t.height_dict, IF low THEN 0 ELSE eng.h)
      rdict == Append(t.ray_dict, IF low THEN 0 ELSE num_of_rays)
  IN  [i |-> i + 1, n |-> num_of_rays, intensity_val |-> intensity_val,
       int_dict |-> idict, height_dict |-> hdict, ray_dict |-> rdict,
       result |-> IF fitted THEN eng.bw ELSE t.result,
       hfit |-> IF low THEN t.hfit ELSE t.hfit \cup {i + 1},
       bwfit |-> t.bwfit \/ fitted,
       ret |-> ReturnAt(i, num_of_rays, intensity_val, eng.bw, idict, hdict, rdict)]

\* trace has returned
Returned(t) == t.ret # <<>>

\* trace(list_oe, beam) run from frame t until it returns or the chain ends,
\* the engine answering script[k] at stage k: the frame it ends in
RECURSIVE TraceFrom(_, _)
TraceFrom(t, script) ==
  IF Returned(t) \/ t.i >= NumOE THEN t
  ELSE TraceFrom(LoopBody(t, script[t.i + 1]), script)

trace(script) == TraceFrom(NewTrace, script)

----------------------------------------------------------------------------
(* optimize *)

Abs(x) == IF x < 0 THEN -x ELSE x
Min(a, b) == IF a < b THEN a ELSE b

\* mutant of Continue: the loop goes on at a relative change of exactly 0.30
ContinueAtTolerance(dEp, dE) ==
  IF dE > 0 THEN 10 * Abs(dEp - dE) >= 3 * dE
  ELSE IF dE = 0 THEN Abs(dEp - dE) > 0
  ELSE FALSE

\* mutant of OptimizeReturn: the bandwidth itself is returned
OptimizeReturnFwhm(f) == f

\* mutant of Continue: the tolerance is 3% instead of 30%
ContinueTightTolerance(dEp, dE) ==
  IF dE = 0 THEN dEp # 0 ELSE 100 * Abs(dEp - dE) > 3 * dE

\* the while condition numpy.abs(delta_E_prime - delta_E)/delta_E > 0.30.
\* With delta_E = 0 numpy divides with a warning: x/0 is inf (> 0.30) for
\* x > 0 and 0/0 is nan (no comparison with nan is true).
Continue(dEp, dE) ==
  IF dE > 0 THEN 10 * Abs(dEp - dE) > 3 * dE
  ELSE IF dE = 0 THEN Abs(dEp - dE) > 0
  ELSE FALSE

\* type(fwhm) == None: type() gives a class, which never equals None
TypeIsNone(f) == FALSE

\* the value optimize returns when its loop ends
OptimizeReturn(f) == 2 * f

\* the scripts of the engine optimize and simulate are run against: every
\* element before the last passes every ray, the last one answers e
Clean == [n |-> NPOINT, I |-> NPOINT, h |-> 3, bw |-> None]
Script(e) == [k \in 1..NumOE |-> IF k < NumOE THEN Clean ELSE e]
TrialScripts == { Script(e) : e \in Engine(NPOINT) }

\* mutant of set_up: the source is generated with a fixed half-width
set_upFixedWidth(E, dE) == [E |-> E, delta_E |-> InitialGuess, traced |-> 0]

\* set_up(E, delta_E, cff, order): a new chain and a new beam, generated from
\* a source of photon energies PH1 = E - delta_E to PH2 = E + delta_E
set_up(E, dE) == [E |-> E, delta_E |-> dE, traced |-> 0]

\* trace propagates the beam it is given, in place
TraceOn(b) == [b EXCEPT !.traced = Min(@ + 1, 2)]

\* set_up(E, dE, cff, order) followed by trace(list_oe, beam): a fresh chain
\* and beam, traced; the engine's answers do not depend on dE in the model
\* (any answer is possible at any half-width)
Traced == { trace(sc) : sc \in TrialScripts }
SetUpAndTrace(dE) == Traced

----------------------------------------------------------------------------
(* simulate *)

\* a fraction num/den, kept unreduced
Frac(n, d) == [num |-> n, den |-> d]

\* bandwidth = delta_E / E
Bandwidth(dE, E) == Frac(dE, E)

\* mutant of FluxCalc: the grating efficiency is left out of the product
FluxCalcNoEfficiency(bandwidth, flux, grating_eff, intensity) ==
  Frac(bandwidth.num * flux * intensity, bandwidth.den * (NPOINT \div 1000))

\* flux_calc = bandwidth/0.001 * flux * grating_eff * intensity/50000,
\* the factor 1000/50000 written as 1/50
FluxCalc(bandwidth, flux, grating_eff, intensity) ==
  Frac(bandwidth.num * flux * grating_eff * intensity,
       bandwidth.den * (NPOINT \div 1000))

\* mutant of Row: the bandwidth ratio is taken from the final trace's FWHM
RowBandwidthFromTrace(a, dE, r) ==
  [E |-> a.E, fwhm |-> r.fwhm, bandwidth |-> Bandwidth(r.fwhm, a.E),
   flux_calc |-> FluxCalc(Bandwidth(r.fwhm, a.E), a.flux, a.grating_eff, r.intensity),
   intensity |-> r.intensity, intensity_dict |-> r.int_dict,
   height_dict |-> r.height_dict, ray_dict |-> r.ray_dict]

\* the tuple simulate returns, r being the result of its own trace
Row(a, dE, r) ==
  [E |-> a.E, fwhm |-> r.fwhm, bandwidth |-> Bandwidth(dE, a.E),
   flux_calc |-> FluxCalc(Bandwidth(dE, a.E), a.flux, a.grating_eff, r.intensity),
   intensity |-> r.intensity, intensity_dict |-> r.int_dict,
   height_dict |-> r.height_dict, ray_dict |-> r.ray_dict]

----------------------------------------------------------------------------
(* Inputs *)

Energies == {30000, 31000}     \* 300 eV and 310 eV, in units of 0.01 eV
Effs == {1, 2}                 \* interpolated grating efficiency
Fluxes == {3}                  \* interpolated source flux
Guesses == {4, 10, 20}         \* initial guesses of a direct optimize call

Calls ==
  { [who |-> "simulate", E |-> e, grating_eff |-> g, flux |-> f, delta_E |-> InitialGuess] :
      e \in Energies, g \in Effs, f \in Fluxes }
  \cup
  { [who |-> "optimize", E |-> e, grating_eff |-> 1, flux |-> 1, delta_E |-> d] :
      e \in Energies, d \in Guesses }

----------------------------------------------------------------------------
(* One call of simulate, or of optimize *)

\* main is not running
NoPool ==
  /\ nextTask = 0
  /\ busy = <<>>
  /\ got = <<>>
  /\ results = <<>>
  /\ outfile = <<>>
  /\ finishOrder = <<>>

Init ==
  /\ tr = NewTrace
  /\ beam = <<>>
  /\ pc = "call"
  /\ args \in Calls
  /\ delta_E = args.delta_E
  /\ delta_E_prime = 0
  /\ fwhm = 0
  /\ ret = <<>>
  /\ row = <<>>
  /\ guess = args.delta_E
  /\ ntraces = 0
  /\ aborted = FALSE
  /\ starved = FALSE
  /\ retraced = FALSE
  /\ flat = TRUE
  /\ NoPool

\* optimize, up to the while loop: the first set_up and trace
OptimizeFirst ==
  /\ pc = "call"
  /\ \E t \in SetUpAndTrace(delta_E) :
       LET r == t.ret[1] IN
       /\ fwhm' = r.fwhm
       /\ IF TypeIsNone(r.fwhm)
          THEN /\ ret' = <<0>>
               /\ delta_E_prime' = delta_E_prime
               /\ pc' = IF args.who = "simulate" THEN "final" ELSE "done"
          ELSE /\ ret' = ret
               /\ delta_E_prime' = r.fwhm * 2
               /\ pc' = "test"
       /\ aborted' = (r.fwhm = 0)
       /\ starved' = (t.n < MinRays)
  /\ beam' = << TraceOn(set_up(args.E, delta_E)) >>
  /\ ntraces' = 1
  /\ UNCHANGED <<tr, args, delta_E, row, guess, retraced, flat, poolVars>>

\* one iteration of the while loop: the condition holds, the body runs
OptimizeIterate ==
  /\ pc = "test"
  /\ Continue(delta_E_prime, delta_E)
  /\ delta_E' = delta_E_prime
  /\ \E t \in SetUpAndTrace(delta_E') :
       LET r == t.ret[1] IN
       /\ fwhm' = r.fwhm
       /\ delta_E_prime' = r.fwhm * 2
       /\ aborted' = (aborted \/ r.fwhm = 0)
       /\ starved' = (starved \/ t.n < MinRays)
       /\ flat' = (flat /\ r.fwhm = fwhm)
  /\ beam' = << TraceOn(set_up(args.E, delta_E')) >>
  /\ retraced' = (retraced \/ aborted)
  /\ ntraces' = Min(ntraces + 1, MaxCount)
  /\ UNCHANGED <<tr, pc, args, ret, row, guess, poolVars>>

\* the while condition fails: return 2*fwhm
OptimizeDone ==
  /\ pc = "test"
  /\ ~Continue(delta_E_prime, delta_E)
  /\ ret' = << OptimizeReturn(fwhm) >>
  /\ pc' = IF args.who = "simulate" THEN "final" ELSE "done"
  /\ UNCHANGED <<tr, beam, args, delta_E, delta_E_prime, fwhm, row,
                 guess, ntraces, aborted, starved, retraced, flat, poolVars>>

\* simulate after optimize: set_up with the returned half-width, the final
\* trace, the flux and the returned tuple
SimulateFinish ==
  /\ pc = "final"
  /\ \E t \in SetUpAndTrace(ret[1]) :
       /\ tr' = t
       /\ row' = << Row(args, ret[1], t.ret[1]) >>
  /\ beam' = << TraceOn(set_up(args.E, ret[1])) >>
  /\ pc' = "done"
  /\ UNCHANGED <<args, delta_E, delta_E_prime, fwhm, ret,
                 guess, ntraces, aborted, starved, retraced, flat, poolVars>>

Next == OptimizeFirst \/ OptimizeIterate \/ OptimizeDone \/ SimulateFinish

Spec == Init /\ [][Next]_vars

\* the loop is synchronous compute: a step that can be taken is taken
FairSpec == Spec /\ WF_vars(Next)

----------------------------------------------------------------------------
(* One call of trace, stage by stage *)

InitTrace ==
  /\ tr = NewTrace
  /\ beam = <<>>
  /\ pc = "trace"
  /\ args = [who |-> "trace", E |-> 30000, grating_eff |-> 1, flux |-> 1,
              delta_E |-> InitialGuess]
  /\ delta_E = args.delta_E
  /\ delta_E_prime = 0
  /\ fwhm = 0
  /\ ret = <<>>
  /\ row = <<>>
  /\ guess = args.delta_E
  /\ ntraces = 0
  /\ aborted = FALSE
  /\ starved = FALSE
  /\ retraced = FALSE
  /\ flat = TRUE
  /\ NoPool

\* an element before the one at index 10 is propagated
Propagate ==
  /\ pc = "trace"
  /\ ~Returned(tr)
  /\ tr.i < BwIndex
  /\ \E eng \in Engine(tr.n) : tr' = LoopBody(tr, eng)
  /\ UNCHANGED <<beam, pc, args, delta_E, delta_E_prime, fwhm, ret, row,
                 guess, ntraces, aborted, starved, retraced, flat, poolVars>>

\* the element at index 10 is propagated and trace returns
BandwidthStage ==
  /\ pc = "trace"
  /\ ~Returned(tr)
  /\ tr.i = BwIndex
  /\ \E eng \in Engine(tr.n) : tr' = LoopBody(tr, eng)
  /\ UNCHANGED <<beam, pc, args, delta_E, delta_E_prime, fwhm, ret, row,
                 guess, ntraces, aborted, starved, retraced, flat, poolVars>>

NextTrace == Propagate \/ BandwidthStage

SpecTrace == InitTrace /\ [][NextTrace]_vars

----------------------------------------------------------------------------
(* simulate as a function of the engine's answers *)

\* the while loop of optimize run against the traces rs, in the order it asks
\* for them: what it returns (<<>> if rs runs out first) and the traces left
RECURSIVE OptimizeLoop(_, _, _, _)
OptimizeLoop(dE, dEp, f, rs) ==
  IF ~Continue(dEp, dE) THEN [ret |-> << OptimizeReturn(f) >>, rest |-> rs]
  ELSE IF rs = <<>> THEN [ret |-> <<>>, rest |-> rs]
  ELSE OptimizeLoop(dEp, Head(rs).ret[1].fwhm * 2, Head(rs).ret[1].fwhm, Tail(rs))

\* optimize(E, dE, cff, order) run against the traces rs
optimize(dE, rs) ==
  IF rs = <<>> THEN [ret |-> <<>>, rest |-> rs]
  ELSE IF TypeIsNone(Head(rs).ret[1].fwhm) THEN [ret |-> <<0>>, rest |-> Tail(rs)]
  ELSE OptimizeLoop(dE, Head(rs).ret[1].fwhm * 2, Head(rs).ret[1].fwhm, Tail(rs))

\* simulate(a) run against the traces rs: <<its tuple>>, or <<>> if rs runs
\* out before it returns
simulate(a, rs) ==
  LET o == optimize(InitialGuess, rs)
  IN  IF o.ret = <<>> \/ o.rest = <<>> THEN <<>>
      ELSE << Row(a, o.ret[1], Head(o.rest).ret[1]) >>

\* the answers of the engine in the sweep: at the last element no ray is left,
\* or every ray is and the column-11 fit gives one width
SweepAnswers ==
  { [n |-> 0, I |-> 0, h |-> 0, bw |-> None],
    [n |-> NPOINT, I |-> NPOINT \div 2, h |-> 3, bw |-> 5] }
SweepTraced == { trace(Script(e)) : e \in SweepAnswers }

RECURSIVE SeqsUpTo(_, _)
SeqsUpTo(S, n) ==
  IF n = 0 THEN { <<>> }
  ELSE LET shorter == SeqsUpTo(S, n - 1)
       IN  shorter \cup { Append(q, x) : q \in shorter, x \in S }

\* the tuples simulate(a) can return within MaxResponses traces
SimulateOutcomes(a) ==
  { simulate(a, rs)[1] :
      rs \in { q \in SeqsUpTo(SweepTraced, MaxResponses) : simulate(a, q) # <<>> } }

----------------------------------------------------------------------------
(* main, for one (cff, order) pair: the pool, imap, the output file *)

\* args = [(E, cff, order, interpolated_eff(E), interpolated_flux(E)) for E in
\* numpy.arange(300, order*3000, 10)]: energies 10 eV apart, from 300 eV
Scan ==
  [k \in 1..NumEnergies |->
     [who |-> "simulate", E |-> 30000 + 1000 * (k - 1),
      grating_eff |-> 1 + (k % 2), flux |-> 3, delta_E |-> InitialGuess]]

Workers == 1..PoolSize

\* mutant of ImapReady: imap_unordered, any arrived result not yet yielded
ImapReadyUnordered(res, g) ==
  { k \in DOMAIN g :
      g[k] # <<>> /\ \A j \in 1..Len(res) : res[j] # g[k][1] }

\* p.imap: the index whose result the iterator yields next, once it arrived
ImapReady(res, g) ==
  { k \in DOMAIN g : k = Len(res) + 1 /\ g[k] # <<>> }

\* mutant of WriteRows: rows of aborted traces are left out
WriteRowsSkipAborted(rs) == SelectSeq(rs, LAMBDA r : r.ray_dict.isdict)

\* writer.writerows(results)
WriteRows(rs) == rs

InitSweep ==
  /\ tr = NewTrace
  /\ beam = <<>>
  /\ pc = "main"
  /\ args = Scan[1]
  /\ delta_E = 0
  /\ delta_E_prime = 0
  /\ fwhm = 0
  /\ ret = <<>>
  /\ row = <<>>
  /\ guess = 0
  /\ ntraces = 0
  /\ aborted = FALSE
  /\ starved = FALSE
  /\ retraced = FALSE
  /\ flat = TRUE
  /\ nextTask = 1
  /\ busy = [w \in Workers |-> 0]
  /\ got = [k \in 1..NumEnergies |-> <<>>]
  /\ results = <<>>
  /\ outfile = <<>>
  /\ finishOrder = <<>>

\* an idle worker of the pool takes the next element of args
Dispatch(w) ==
  /\ busy[w] = 0
  /\ nextTask <= NumEnergies
  /\ busy' = [busy EXCEPT ![w] = nextTask]
  /\ nextTask' = nextTask + 1
  /\ UNCHANGED <<tr, beam, callVars, got, results, outfile, finishOrder>>

\* the simulate call of a worker returns; a call whose optimize never
\* converges never takes this step
Finish(w) ==
  /\ busy[w] # 0
  /\ \E r \in SimulateOutcomes(Scan[busy[w]]) :
       got' = [got EXCEPT ![busy[w]] = << r >>]
  /\ finishOrder' = Append(finishOrder, busy[w])
  /\ busy' = [busy EXCEPT ![w] = 0]
  /\ UNCHANGED <<tr, beam, callVars, nextTask, results, outfile>>

\* list(p.imap(simulate, args)) receives the next result
Yield ==
  /\ outfile = <<>>
  /\ \E k \in ImapReady(results, got) : results' = Append(results, got[k][1])
  /\ UNCHANGED <<tr, beam, callVars, nextTask, busy, got, outfile, finishOrder>>

\* the list is complete: the header lines and writer.writerows(results)
WriteFile ==
  /\ outfile = <<>>
  /\ Len(results) = NumEnergies
  /\ outfile' = << [header |-> <<"cff, order, time", "columns">>,
                    rows |-> WriteRows(results)] >>
  /\ UNCHANGED <<tr, beam, callVars, nextTask, busy, got, results, finishOrder>>

NextSweep ==
  \/ \E w \in Workers : Dispatch(w)
  \/ \E w \in Workers : Finish(w)
  \/ Yield
  \/ WriteFile

SpecSweep == InitSweep /\ [][NextSweep]_vars

----------------------------------------------------------------------------
(* Claims about trace, checked under SpecTrace *)

\* C2: for every stage propagated, fewer than 500 non-lost rays after the
\* stage means its recorded FWHM is 0, its recorded ray count is 0 and no fit
\* was taken for it (neither the column-3 fit nor, at stage 11, the column-11
\* fit); 500 or more means the recorded ray count is the actual count.
C2_LowStatisticsSentinel ==
  tr.i >= 1 =>
    /\ tr.n < MinRays =>
         /\ tr.height_dict[tr.i] = 0
         /\ tr.ray_dict[tr.i] = 0
         /\ tr.i \notin tr.hfit
         /\ ~tr.bwfit
    /\ tr.n >= MinRays => tr.ray_dict[tr.i] = tr.n
    /\ \A k \in 1..tr.i :
         tr.ray_dict[k] < MinRays =>
           tr.ray_dict[k] = 0 /\ tr.height_dict[k] = 0 /\ k \notin tr.hfit

\* a stage with 499 rays and a non-zero intensity was recorded after a stage
\* that kept exactly 500
C2_Witness ==
  /\ tr.i = 7
  /\ tr.n = MinRays - 1
  /\ tr.intensity_val > 0
  /\ tr.ray_dict[6] = MinRays
  /\ tr.ray_dict[7] = 0

\* C3: with fewer than 500 rays after stage 11, trace has returned normally,
\* with bandwidth 0 and intensity 0 whatever intensity was summed, and the
\* column-11 fit was not taken.
C3_InsufficientStatisticsSentinel ==
  (tr.i = BwIndex + 1 /\ tr.n < MinRays) =>
    /\ Returned(tr)
    /\ tr.ret[1].fwhm = 0
    /\ tr.ret[1].intensity = 0
    /\ ~tr.bwfit

\* stage 11 ended with 499 rays of non-zero intensity and trace returned
C3_Witness ==
  /\ tr.i = BwIndex + 1
  /\ tr.n = MinRays - 1
  /\ tr.intensity_val > 0
  /\ Returned(tr)

\* C4: a column-11 fit of 0 or None gives the sentinel (bandwidth 0,
\* intensity 0); every result with bandwidth 0 has intensity 0, and every
\* result carries a defined bandwidth, non-zero if the intensity is non-zero.
C4_NoZeroBandwidthSuccess ==
  Returned(tr) =>
    /\ (tr.bwfit /\ (tr.result = 0 \/ tr.result = None)) =>
         tr.ret[1].fwhm = 0 /\ tr.ret[1].intensity = 0
    /\ tr.ret[1].fwhm = 0 => tr.ret[1].intensity = 0
    /\ tr.ret[1].fwhm # None
    /\ tr.ret[1].intensity # 0 => tr.ret[1].fwhm > 0

\* the fit was taken on 500 rays or more of non-zero intensity and gave None
C4_Witness ==
  /\ Returned(tr)
  /\ tr.bwfit
  /\ tr.result = None
  /\ tr.n >= MinRays
  /\ tr.intensity_val > 0

\* trace returned a bandwidth: the return of line 79
Success(t) == Returned(t) /\ t.ret[1].fwhm # 0

\* C12: the ray counts trace has recorded never increase from one stage to
\* the next (the engine only loses rays), the stages whose count is the
\* sentinel 0 included: after a stage below 500 rays every entry is 0.
C12_RayCountsNonIncreasing ==
  /\ \A k \in 1..(tr.i - 1) : tr.ray_dict[k + 1] <= tr.ray_dict[k]
  /\ \A k \in 1..tr.i : tr.ray_dict[k] <= NPOINT
  /\ \A k \in 1..(tr.i - 1) : tr.ray_dict[k] = 0 => tr.ray_dict[k + 1] = 0

\* all rays, then 500, then the sentinel, then one more stage
C12_Witness ==
  /\ tr.i = 7
  /\ tr.ray_dict[4] = NPOINT
  /\ tr.ray_dict[5] = MinRays
  /\ tr.ray_dict[6] = 0
  /\ tr.n = 0

\* C13: a stage before the bandwidth stage with fewer than 500 rays does not
\* end the trace: its height and ray entries are the sentinels, trace has not
\* returned and the next element can be propagated; every step propagates
\* exactly the next element of the chain and keeps what was recorded.
C13_LowStageDoesNotEndTrace ==
  /\ [](\A k \in 1..BwIndex :
          (tr.i = k /\ tr.n < MinRays) =>
            /\ ~Returned(tr)
            /\ tr.height_dict[k] = 0
            /\ tr.ray_dict[k] = 0
            /\ Len(tr.int_dict) = k
            /\ ENABLED NextTrace)
  /\ [][/\ tr'.i = tr.i + 1
        /\ tr'.i <= NumOE
        /\ \A k \in 1..tr.i :
             /\ tr'.int_dict[k] = tr.int_dict[k]
             /\ tr'.height_dict[k] = tr.height_dict[k]
             /\ tr'.ray_dict[k] = tr.ray_dict[k]]_vars

\* stage 2 had fewer than 500 rays, stages 3 to 10 were propagated after it
C13_Witness ==
  /\ tr.i = BwIndex
  /\ tr.ray_dict[2] = 0
  /\ tr.ray_dict[1] = MinRays
  /\ tr.n = MinRays - 1
  /\ ~Returned(tr)

\* C14: trace propagates the 11 elements of set_up's chain once each, in
\* order, and returns exactly when the 11th is done: it never ends without a
\* result tuple. A successful trace returns the intensity summed after the
\* last stage and three maps with an entry for every stage 1..11.
C14_SuccessCoversChain ==
  /\ tr.i <= NumOE
  /\ Len(tr.int_dict) = tr.i
  /\ Len(tr.height_dict) = tr.i
  /\ Len(tr.ray_dict) = tr.i
  /\ Returned(tr) <=> tr.i = NumOE
  /\ Success(tr) =>
       LET r == tr.ret[1] IN
       /\ r.intensity = tr.int_dict[NumOE]
       /\ r.int_dict = PyDict(tr.int_dict)
       /\ r.height_dict = PyDict(tr.height_dict)
       /\ r.ray_dict = PyDict(tr.ray_dict)
       /\ \A k \in 1..NumOE : r.ray_dict.items[k] >= MinRays

\* a successful trace that lost rays on the way
C14_Witness ==
  /\ Success(tr)
  /\ tr.ret[1].ray_dict.items[1] = NPOINT
  /\ tr.ret[1].ray_dict.items[NumOE] = MinRays
  /\ tr.ret[1].intensity = MinRays \div 2

\* C15: an aborted trace returns the three maps as recorded up to the abort
\* stage: the intensity map, the height map and the ray-count map each hold
\* an entry for every stage propagated.
C15_AbortReturnsMetricsSoFar ==
  (Returned(tr) /\ ~Success(tr)) =>
    LET r == tr.ret[1] IN
    /\ r.int_dict = PyDict(tr.int_dict)
    /\ r.height_dict = PyDict(tr.height_dict)
    /\ r.ray_dict = PyDict(tr.ray_dict)
    /\ Len(r.ray_dict.items) = tr.i

----------------------------------------------------------------------------
(* Claims about optimize and simulate, checked under Spec and FairSpec *)

\* optimize has returned
OptimizeReturned == ret # <<>>

\* |2*f - D| / D <= 0.30, for D > 0
WithinTolerance(f, D) == 10 * Abs(2 * f - D) <= 3 * D

\* C1: once a trace of optimize returned bandwidth 0, optimize runs no further
\* set_up/trace, and what it returns is 0.
C1_AbortEndsOptimize ==
  aborted => (~retraced /\ (OptimizeReturned => ret = <<0>>))

\* C5: while every trace succeeded, the first trial runs at the initial guess,
\* delta_E_prime is 2*fwhm, and the step from the test either returns 2*fwhm
\* without another trace (relative change <= 0.30) or runs the next trial at
\* half-width 2*fwhm (relative change > 0.30).
C5_StopsAtFirstTrialWithinTolerance ==
  [][ (pc = "test" /\ ~aborted) =>
        /\ ntraces = 1 => delta_E = guess
        /\ delta_E_prime = 2 * fwhm
        /\ IF WithinTolerance(fwhm, delta_E)
           THEN pc' # "test" /\ ret' = << 2 * fwhm >> /\ ntraces' = ntraces
           ELSE pc' = "test" /\ delta_E' = 2 * fwhm /\ ret' = <<>>
                /\ ntraces' = Min(ntraces + 1, MaxCount) ]_vars

\* optimize returned after three successful trials
C5_Witness ==
  /\ OptimizeReturned
  /\ ~aborted
  /\ ntraces = 3
  /\ ret = << 2 * fwhm >>

\* C6: every call of optimize returns.  Stated for the calls none of whose
\* traces aborts, in which only the tolerance test can end the loop: such a
\* call returns (or else it is a call that met an aborted trace).
C6_OptimizeTerminates == <>(OptimizeReturned \/ aborted)

\* C8: once a trial of optimize had fewer than 500 rays at the bandwidth
\* stage, optimize returns 0 and the row of simulate has FWHM 0 and flux 0.
C8_StarvedTrialGivesZeroRow ==
  starved =>
    /\ OptimizeReturned => ret = <<0>>
    /\ row # <<>> => (row[1].fwhm = 0 /\ row[1].flux_calc.num = 0)

\* C10: with every trace returning the same bandwidth f0 > 0, optimize goes
\* on from the test only after its first trial, and only if that trial is not
\* within tolerance of the initial guess; it returns 2*f0 after one trace if
\* the first trial is within tolerance and after two traces otherwise.
C10_FlatResponse ==
  (flat /\ fwhm > 0 /\ ntraces >= 1) =>
    /\ ntraces <= 2
    /\ pc = "test" =>
         (Continue(delta_E_prime, delta_E)
            <=> (ntraces = 1 /\ ~WithinTolerance(fwhm, guess)))
    /\ OptimizeReturned =>
         /\ ret = << 2 * fwhm >>
         /\ ntraces = IF WithinTolerance(fwhm, guess) THEN 1 ELSE 2

\* optimize returned after two traces of the same bandwidth
C10_Witness ==
  /\ OptimizeReturned
  /\ flat
  /\ fwhm > 0
  /\ ntraces = 2

----------------------------------------------------------------------------
(* Claims about main, checked under SpecSweep *)

\* C7: row k of what imap yields, and of the file, is the tuple the simulate
\* call on the k-th submitted energy returned, in whatever order the workers
\* finish.
C7_RowsInSubmissionOrder ==
  /\ \A k \in 1..Len(results) :
       got[k] = << results[k] >> /\ results[k].E = Scan[k].E
  /\ outfile # <<>> =>
       /\ Len(outfile[1].rows) = NumEnergies
       /\ \A k \in 1..Len(outfile[1].rows) : outfile[1].rows[k].E = Scan[k].E

\* the file is written although the second energy finished first
C7_Witness ==
  /\ outfile # <<>>
  /\ finishOrder[1] = 2

C11_FixedPointIsIdempotent ==
  [][(pc = "test" /\ ntraces = 1 /\ guess > 0 /\ WithinTolerance(fwhm, guess))
       => /\ delta_E = guess
          /\ ntraces' = 1
          /\ fwhm' = fwhm
          /\ ret' = << 2 * fwhm >>
          /\ 10 * Abs(ret'[1] - guess) <= 3 * guess]_vars

\* a call whose guess is a half-width optimize returns (2 * 5), answered
\* consistently, has returned it after one trace
C11_Witness ==
  /\ OptimizeReturned
  /\ ntraces = 1
  /\ guess = 10
  /\ ret = << guess >>
  /\ ~aborted

\* order of two fractions of one denominator
FracLeq(x, y) == x.den = y.den /\ x.den > 0 /\ x.num <= y.num
FracLess(x, y) == x.den = y.den /\ x.den > 0 /\ x.num < y.num

\* values the flux of a row is compared at
SampleIntensities == {0, 1, MinRays \div 2, NPOINT \div 2, NPOINT}
SampleFactors == 0..4

\* C16: the flux of a row is the value of the flux formula at the row's
\* bandwidth ratio, the task's flux and efficiency and the row's intensity,
\* and the formula never decreases when the intensity, the efficiency or the
\* flux is raised alone, whatever half-width optimize returned; it increases
\* strictly when the half-width and the two other factors are positive, and
\* is 0 throughout when optimize returned 0.
C16_FluxMonotone ==
  row # <<>> =>
    LET r == row[1]
        D == ret[1]
        F(ph, eta, I) == FluxCalc(Bandwidth(D, args.E), ph, eta, I)
    IN  /\ r.flux_calc = F(args.flux, args.grating_eff, r.intensity)
        /\ D >= 0
        /\ D = 0 => r.flux_calc.num = 0
        /\ \A I \in SampleIntensities :
             /\ I >= r.intensity =>
                  FracLeq(r.flux_calc, F(args.flux, args.grating_eff, I))
             /\ I <= r.intensity =>
                  FracLeq(F(args.flux, args.grating_eff, I), r.flux_calc)
             /\ (I > r.intensity /\ D > 0) =>
                  FracLess(r.flux_calc, F(args.flux, args.grating_eff, I))
        /\ \A eta \in SampleFactors :
             /\ eta >= args.grating_eff =>
                  FracLeq(r.flux_calc, F(args.flux, eta, r.intensity))
             /\ eta <= args.grating_eff =>
                  FracLeq(F(args.flux, eta, r.intensity), r.flux_calc)
             /\ (eta > args.grating_eff /\ D > 0 /\ r.intensity > 0) =>
                  FracLess(r.flux_calc, F(args.flux, eta, r.intensity))
        /\ \A ph \in SampleFactors :
             /\ ph >= args.flux =>
                  FracLeq(r.flux_calc, F(ph, args.grating_eff, r.intensity))
             /\ ph <= args.flux =>
                  FracLeq(F(ph, args.grating_eff, r.intensity), r.flux_calc)
             /\ (ph > args.flux /\ D > 0 /\ r.intensity > 0) =>
                  FracLess(r.flux_calc, F(ph, args.grating_eff, r.intensity))

\* optimize returned 0 and the final trace succeeded: a row of flux 0 with a
\* non-zero intensity
C16_Witness ==
  /\ row # <<>>
  /\ ret = <<0>>
  /\ row[1].intensity > 0
  /\ row[1].flux_calc.num = 0

\* C18: every trace of optimize and simulate runs on the beam of a set_up
\* call of its own, made with the half-width being tried: the guess for the
\* first trial, twice the last bandwidth for a later one, the value optimize
\* returned for simulate's final trace. No beam is traced twice.
C18_FreshChainPerTrace ==
  /\ (beam = <<>>) <=> (ntraces = 0)
  /\ beam # <<>> =>
       /\ beam[1].traced = 1
       /\ beam[1].E = args.E
       /\ (row = <<>> /\ ntraces = 1) => beam[1].delta_E = guess
       /\ row = <<>> => beam[1].delta_E = delta_E
       /\ row # <<>> => beam[1].delta_E = ret[1]

\* the final trace ran on a beam of the returned half-width, which is not the
\* half-width of optimize's last trial
C18_Witness ==
  /\ row # <<>>
  /\ ntraces >= 2
  /\ beam[1].delta_E = ret[1]
  /\ ret[1] # delta_E
  /\ beam[1].traced = 1

\* C19: simulate runs optimize, then one trace of its own, then computes the
\* flux and returns the row. The row's bandwidth ratio is optimize's return
\* over E; its FWHM, intensity and three maps are those of simulate's own
\* trace, not of a trial of optimize; its flux is the formula at that ratio
\* and that intensity.
C19_RowComposition ==
  /\ pc \in {"call", "test"} => (ret = <<>> /\ row = <<>> /\ tr = NewTrace)
  /\ pc = "final" => (ret # <<>> /\ row = <<>> /\ tr = NewTrace)
  /\ row # <<>> =>
       /\ pc = "done"
       /\ args.who = "simulate"
       /\ OptimizeReturned
       /\ Returned(tr)
       /\ row[1].E = args.E
       /\ row[1].bandwidth = Frac(ret[1], args.E)
       /\ row[1].fwhm = tr.ret[1].fwhm
       /\ row[1].intensity = tr.ret[1].intensity
       /\ row[1].intensity_dict = tr.ret[1].int_dict
       /\ row[1].height_dict = tr.ret[1].height_dict
       /\ row[1].ray_dict = tr.ret[1].ray_dict
       /\ row[1].flux_calc =
            FluxCalc(row[1].bandwidth, args.flux, args.grating_eff,
                     tr.ret[1].intensity)

\* a row whose FWHM is not the bandwidth of optimize's last trial, and whose
\* bandwidth ratio is not twice its FWHM over E
C19_Witness ==
  /\ row # <<>>
  /\ row[1].fwhm > 0
  /\ fwhm > 0
  /\ row[1].fwhm # fwhm
  /\ row[1].bandwidth = Frac(2 * fwhm, args.E)
  /\ row[1].flux_calc.num > 0

\* C20: in an optimize call with a positive guess every half-width a trial
\* is set up with is positive, and the convergence test is never evaluated
\* with a half-width of 0, whatever the traces return.
C20_TrialHalfWidthPositive ==
  (guess > 0 /\ pc = "test") =>
    /\ delta_E > 0
    /\ beam[1].delta_E > 0

====
